---- MODULE Spec2Model ----
(***************************************************************************)
(* Model of dataAnalyzer.py: one run of the Streamlit script over an       *)
(* uploaded file.  The pandas / numpy calls the script makes are modelled  *)
(* by what they compute on the table (default arguments included).         *)
(*                                                                         *)
(* A cell is a pair <<tag, payload>>:                                      *)
(*   <<"na",0>>     the absent marker (NaN / None)                         *)
(*   <<"num",k>>    the number k                                           *)
(*   <<"bool",b>>   the boolean b (0 = False, 1 = True)                    *)
(*   <<"str",i>>    the string StrName[i]                                  *)
(* A column is a sequence of cells, a table a sequence of columns of equal *)
(* length; a column's name is its position.                                *)
(*                                                                         *)
(* Files are drawn from two families: every table of up to MaxCols columns *)
(* and MaxRows rows over a small alphabet, and long four-column tables     *)
(* whose first column has about TopN distinct values, so that head(10)     *)
(* truncates.  Numbers are integers; means and variances are kept as       *)
(* fractions, histogram edges doubled, so that no rounding enters.         *)
(***************************************************************************)
EXTENDS Integers, Sequences, FiniteSets, TLC

\* ---------------------------------------------------------------- bounds
MaxRows == 2
MaxCols == 1
MaxNum == 1
MaxOver == 2

\* ------------------------------------------------------ program constants
TopN == 10
Bins == 20

\* ------------------------------------------------------------------ cells
NA == <<"na", 0>>
StrName == <<"False", "True", "a", "b", "nan">>
StrFalse == 1
StrTrue == 2
StrNan == 5
Num(k) == <<"num", k>>
Bool(b) == <<"bool", b>>
Str(i) == <<"str", i>>
Tag(c) == c[1]
Val(c) == c[2]
IsNA(c) == Tag(c) = "na"

NumCells == {Num(k) : k \in 0..MaxNum}
BoolCells == {Bool(0), Bool(1)}
TextCells == {Str(3), Str(4)}

Min(a, b) == IF a <= b THEN a ELSE b
Range(s) == {s[i] : i \in 1..Len(s)}
SeqsOfLen(S, n) == [1..n -> S]

\* ----------------------------------------------------- parsed file content
\* The columns read_csv / read_excel can produce from a file: numbers with
\* blanks, booleans, booleans with blanks, text with blanks.
ColumnsOfLen(r) ==
    SeqsOfLen(NumCells \cup {NA}, r)
    \cup SeqsOfLen(BoolCells \cup {NA}, r)
    \cup SeqsOfLen(TextCells \cup {NA}, r)

SmallTables ==
    UNION {[1..c -> ColumnsOfLen(r)] : <<c, r>> \in (1..MaxCols) \X (0..MaxRows)}

RECURSIVE Repeat(_, _)
Repeat(c, n) == IF n <= 0 THEN <<>> ELSE <<c>> \o Repeat(c, n - 1)

\* A long column with d distinct numbers: value i occurs (i+1) \div 2 times,
\* so that counts tie in pairs, followed by na absent cells.
RECURSIVE WideColumn(_, _)
WideColumn(d, na) ==
    IF d = 0 THEN Repeat(NA, na)
    ELSE Repeat(Num(d), (d + 1) \div 2) \o WideColumn(d - 1, na)

\* A long numeric column with blanks at every fifth row.
WideValues(n) == [i \in 1..n |-> IF i % 5 = 0 THEN NA ELSE Num(i % 4)]

\* A long boolean column and a long text column with blanks at every third row.
WideFlags(n) == [i \in 1..n |-> Bool(i % 2)]
WideLabels(n) == [i \in 1..n |-> IF i % 3 = 0 THEN NA ELSE Str(3 + (i % 2))]

WideTable(d, na) ==
    LET n == Len(WideColumn(d, na))
    IN <<WideColumn(d, na), WideValues(n), WideFlags(n), WideLabels(n)>>

\* Tables with around TopN distinct values in their first column.
WideTables ==
    {WideTable(d, na) : <<d, na>> \in ((TopN - 1)..(TopN + MaxOver)) \X {0, TopN}}

Tables == SmallTables \cup WideTables \cup {<<>>}

NRows(t) == IF Len(t) = 0 THEN 0 ELSE Len(t[1])
NCols(t) == Len(t)
Row(t, i) == [c \in 1..Len(t) |-> t[c][i]]

\* ------------------------------------------------------- pandas primitives
\* Type inference that leaves a column of blanks only as object.
infer_dtype_blank_object(col) ==
    IF \A i \in 1..Len(col) : IsNA(col[i]) THEN "object"
    ELSE IF \A i \in 1..Len(col) : Tag(col[i]) \in {"num", "na"} THEN "number"
    ELSE IF \A i \in 1..Len(col) : Tag(col[i]) = "bool" THEN "bool"
    ELSE "object"

\* dtype the parser infers for a column: a column without rows is object;
\* numbers (blanks allowed, also when every cell is blank) are numeric;
\* booleans without any blank are bool; everything else is object.
infer_dtype(col) ==
    IF Len(col) = 0 THEN "object"
    ELSE IF \A i \in 1..Len(col) : Tag(col[i]) \in {"num", "na"} THEN "number"
    ELSE IF \A i \in 1..Len(col) : Tag(col[i]) = "bool" THEN "bool"
    ELSE "object"

\* str(value), as astype(str) applies it to one cell.
to_str(c) ==
    CASE Tag(c) = "bool" -> Str(IF Val(c) = 1 THEN StrTrue ELSE StrFalse)
      [] Tag(c) = "na" -> Str(StrNan)
      [] OTHER -> c

\* data.select_dtypes(include=kinds).columns
select_dtypes(dt, kinds) == SelectSeq([i \in 1..Len(dt) |-> i], LAMBDA i : dt[i] \in kinds)

\* data[cols] = data[cols].astype(str)
astype_str(t, cols) ==
    [c \in 1..Len(t) |->
        IF c \in Range(cols) THEN [i \in 1..Len(t[c]) |-> to_str(t[c][i])] ELSE t[c]]

\* Line 36, with the mistake of taking every column whose present cells are
\* all booleans.
bool_cols_by_values(t) ==
    SelectSeq([c \in 1..Len(t) |-> c],
              LAMBDA c : \A i \in 1..Len(t[c]) : Tag(t[c][i]) \in {"bool", "na"})

\* Line 36: data.select_dtypes(include="bool").columns
bool_cols(t) == select_dtypes([c \in 1..Len(t) |-> infer_dtype(t[c])], {"bool"})

\* data.isnull().sum(): the number of absent cells of each column.
RECURSIVE isnull_sum(_)
isnull_sum(col) ==
    IF Len(col) = 0 THEN 0
    ELSE (IF IsNA(Head(col)) THEN 1 ELSE 0) + isnull_sum(Tail(col))

RECURSIVE SeqSum(_)
SeqSum(s) == IF Len(s) = 0 THEN 0 ELSE Head(s) + SeqSum(Tail(s))

\* Line 55: data.isnull().sum().sum()
missing_values(t) == SeqSum([c \in 1..Len(t) |-> isnull_sum(t[c])])

\* data.duplicated(): rows are scanned top to bottom against the rows seen so
\* far (keep="first"); absent cells compare equal to each other.
RECURSIVE duplicated_from(_, _, _)
duplicated_from(t, i, seen) ==
    IF i > NRows(t) THEN <<>>
    ELSE <<Row(t, i) \in seen>> \o duplicated_from(t, i + 1, seen \cup {Row(t, i)})

\* data.duplicated() with keep=False: every row that has a twin is marked.
duplicated_keep_none(t) ==
    [i \in 1..NRows(t) |-> \E j \in 1..NRows(t) : j # i /\ Row(t, j) = Row(t, i)]

duplicated(t) == duplicated_from(t, 1, {})

\* Line 56: data.duplicated().sum()
duplicate_rows(t) == Cardinality({i \in 1..NRows(t) : duplicated(t)[i]})

\* ------------------------------------------------------ numeric summaries
NaN == [nan |-> TRUE, num |-> 0, den |-> 1]
Frac(n, d) == [nan |-> FALSE, num |-> n, den |-> d]

\* Series.dropna()
dropna(col) == SelectSeq(col, LAMBDA c : ~IsNA(c))

RECURSIVE SumVals(_)
SumVals(col) == IF Len(col) = 0 THEN 0 ELSE Val(Head(col)) + SumVals(Tail(col))

RECURSIVE SumSquares(_)
SumSquares(col) ==
    IF Len(col) = 0 THEN 0 ELSE Val(Head(col)) * Val(Head(col)) + SumSquares(Tail(col))

\* Series.mean(): absent cells are skipped; no present cell gives NaN.
mean(col) ==
    LET v == dropna(col)
    IN IF Len(v) = 0 THEN NaN ELSE Frac(SumVals(v), Len(v))

\* The square of the standard deviation with ddof = 0.
variance_population(col) ==
    LET v == dropna(col)
        n == Len(v)
    IN IF n <= 0 THEN NaN ELSE Frac(n * SumSquares(v) - SumVals(v) * SumVals(v), n * n)

\* The square of Series.std() (ddof = 1): the squared deviations are divided
\* by count - 1, and the result is NaN when count - 1 <= 0.
variance(col) ==
    LET v == dropna(col)
        n == Len(v)
    IN IF n - 1 <= 0 THEN NaN
       ELSE Frac(n * SumSquares(v) - SumVals(v) * SumVals(v), n * (n - 1))

\* Series.min() and Series.max(): NaN without a present cell.
min(col) ==
    LET xs == {Val(c) : c \in Range(dropna(col))}
    IN IF xs = {} THEN NaN ELSE Frac(CHOOSE m \in xs : \A x \in xs : m <= x, 1)

max(col) ==
    LET xs == {Val(c) : c \in Range(dropna(col))}
    IN IF xs = {} THEN NaN ELSE Frac(CHOOSE m \in xs : \A x \in xs : m >= x, 1)

\* One column of data.describe(): count, mean, std (as its square), min and
\* max; the quartiles are not modelled.
describe_column(t, c) ==
    [column |-> c, count |-> Len(dropna(t[c])), mean |-> mean(t[c]),
     var |-> variance(t[c]), min |-> min(t[c]), max |-> max(t[c])]

\* ------------------------------------------------------------ aggregations
\* Bar chart: the distinct present keys, ascending (groupby sorts its keys
\* and drops absent ones).
RECURSIVE sort_ascending(_)
sort_ascending(S) ==
    IF S = {} THEN <<>>
    ELSE LET m == CHOOSE x \in S : \A y \in S : Val(x) <= Val(y)
         IN <<m>> \o sort_ascending(S \ {m})

\* The distinct present values in the order of their first occurrence.
RECURSIVE unique(_, _)
unique(col, seen) ==
    IF Len(col) = 0 THEN <<>>
    ELSE IF IsNA(Head(col)) \/ Head(col) \in seen THEN unique(Tail(col), seen)
    ELSE <<Head(col)>> \o unique(Tail(col), seen \cup {Head(col)})

\* groupby keys left in order of appearance (sort=False).
group_keys_unsorted(col) == unique(col, {})

\* groupby(x_axis) keys: sort=True, dropna=True.
group_keys(col) == sort_ascending(Range(dropna(col)))

\* Line 125: data.groupby(x_axis)[y_axis].mean()
groupby_mean(t, x, y) ==
    LET keys == group_keys(t[x])
    IN [k \in 1..Len(keys) |->
          <<keys[k], mean([i \in 1..NRows(t) |-> IF t[x][i] = keys[k] THEN t[y][i] ELSE NA])>>]

\* Histogram.  Edges are kept doubled so that the half-unit widening of an
\* empty range stays an integer: the range is (min, max) of the values,
\* (min - 0.5, max + 0.5) when min = max, and (0, 1) without values.
SeqMin(v) == CHOOSE m \in {Val(c) : c \in Range(v)} : \A c \in Range(v) : m <= Val(c)
SeqMax(v) == CHOOSE m \in {Val(c) : c \in Range(v)} : \A c \in Range(v) : m >= Val(c)

first_edge2(v) ==
    IF Len(v) = 0 THEN 0
    ELSE IF SeqMin(v) = SeqMax(v) THEN 2 * SeqMin(v) - 1 ELSE 2 * SeqMin(v)

last_edge2(v) ==
    IF Len(v) = 0 THEN 2
    ELSE IF SeqMin(v) = SeqMax(v) THEN 2 * SeqMax(v) + 1 ELSE 2 * SeqMax(v)

\* The bin index without the correction for the last edge.
bin_index_open(x, lo2, hi2, bins) == ((2 * x - lo2) * bins) \div (hi2 - lo2)

\* The bin a value goes to: its position in the range scaled to the number
\* of bins, a value on the last edge going to the last bin.
bin_index(x, lo2, hi2, bins) ==
    LET f == ((2 * x - lo2) * bins) \div (hi2 - lo2)
    IN IF f = bins THEN bins - 1 ELSE f

\* Line 132: ax.hist(data[y_axis].dropna(), bins=20), the counts per bin.
histogram(col, bins) ==
    LET v == dropna(col)
        lo2 == first_edge2(v)
        hi2 == last_edge2(v)
    IN [b \in 1..bins |->
          Cardinality({i \in 1..Len(v) : bin_index(Val(v[i]), lo2, hi2, bins) = b - 1})]

\* Pie chart.  value_counts() counts in a hash table that keeps the order of
\* first occurrence; absent cells are kept (dropna=False).
RECURSIVE count_keep_na(_, _)
count_keep_na(col, acc) ==
    IF Len(col) = 0 THEN acc
    ELSE LET c == Head(col)
             at == {k \in 1..Len(acc) : acc[k][1] = c}
         IN IF at = {} THEN count_keep_na(Tail(col), Append(acc, <<c, 1>>))
            ELSE count_keep_na(Tail(col),
                     [k \in 1..Len(acc) |-> IF k \in at THEN <<c, acc[k][2] + 1>> ELSE acc[k]])

value_count_keep_na(col) == count_keep_na(col, <<>>)

\* value_counts() counts in a hash table that keeps the order of first
\* occurrence; absent cells are dropped first (dropna=True).
value_count(col) == count_keep_na(dropna(col), <<>>)

RECURSIVE PermSeqs(_)
PermSeqs(S) ==
    IF S = {} THEN {<<>>}
    ELSE UNION {{<<x>> \o p : p \in PermSeqs(S \ {x})} : x \in S}

\* sort_values(ascending=False) of the counts.  The default sort kind is
\* quicksort, which is not stable: entries come out in non-increasing order
\* of count, entries of equal count in any order.
RECURSIVE sort_values(_)
sort_values(S) ==
    IF S = {} THEN {<<>>}
    ELSE LET m == CHOOSE n \in {e[2] : e \in S} : \A e \in S : n >= e[2]
             top == {e \in S : e[2] = m}
         IN {p \o q : <<p, q>> \in PermSeqs(top) \X sort_values(S \ top)}

\* Line 139: data[x_axis].value_counts(), every order the sort may give.
value_counts(col) == sort_values(Range(value_count(col)))

\* Series.head(n + 1)
head_one_more(s, n) == SubSeq(s, 1, Min(n + 1, Len(s)))

\* Series.head(n)
head(s, n) == SubSeq(s, 1, Min(n, Len(s)))

\* Heatmap: line 146, len(numeric_cols) > 0
enough_for_heatmap_one(cols) == Len(cols) > 0

\* Heatmap: line 146, len(numeric_cols) > 1
enough_for_heatmap(cols) == Len(cols) > 1

\* Charts offered whatever the columns.
charts_offered_always(cols) == TRUE

\* Line 88: the chart controls are offered when numeric_cols is not empty.
charts_offered(cols) == Len(cols) > 0

\* --------------------------------------------------------------- the state
VARIABLES pc, uploaded_file, data, dtypes, message, overview, describe,
          numeric_cols, x_axis, y_axis, chart, dashboard

vars == <<pc, uploaded_file, data, dtypes, message, overview, describe,
          numeric_cols, x_axis, y_axis, chart, dashboard>>

NoFile == [ext |-> "", readable |-> FALSE, table |-> <<>>]
NoOverview == [shown |-> FALSE, rows |-> 0, columns |-> 0, missing |-> 0, duplicates |-> 0]
NoChart == [kind |-> "none", labels |-> <<>>, values |-> <<>>, full |-> <<>>]
NoDashboard == [shown |-> FALSE, rows |-> 0, columns |-> 0, missing |-> 0, means |-> <<>>]

\* Lines 160-172: the three metrics and the mean of every numeric column.
Dashboard(cols) ==
    [shown |-> TRUE, rows |-> NRows(data), columns |-> NCols(data),
     missing |-> missing_values(data),
     means |-> [k \in 1..Len(cols) |-> mean(data[cols[k]])]]

Init ==
    /\ pc = "idle"
    /\ uploaded_file = NoFile
    /\ data = <<>>
    /\ dtypes = <<>>
    /\ message = "get_started"
    /\ overview = NoOverview
    /\ describe = <<>>
    /\ numeric_cols = <<>>
    /\ x_axis = 0
    /\ y_axis = 0
    /\ chart = NoChart
    /\ dashboard = NoDashboard

Extensions == {"csv", "xlsx", "txt"}

\* The user puts a file in the uploader; the script reruns from the top.
Upload ==
    /\ pc = "idle"
    /\ \E ext \in Extensions, readable \in BOOLEAN, t \in Tables :
          /\ (readable <=> t # <<>>)
          /\ uploaded_file' = [ext |-> ext, readable |-> readable, table |-> t]
    /\ pc' = "load"
    /\ UNCHANGED <<data, dtypes, message, overview, describe, numeric_cols,
                   x_axis, y_axis, chart, dashboard>>

\* Lines 23-44: read the file, turn the bool columns into strings.
Load ==
    /\ pc = "load"
    /\ IF uploaded_file.ext \notin {"csv", "xlsx"}
         THEN /\ message' = "unsupported"
              /\ pc' = "stopped"
              /\ UNCHANGED <<data, dtypes>>
         ELSE IF ~uploaded_file.readable
         THEN /\ message' = "could_not_read"
              /\ pc' = "stopped"
              /\ UNCHANGED <<data, dtypes>>
         ELSE LET raw == uploaded_file.table
              IN /\ data' = astype_str(raw, bool_cols(raw))
                 /\ dtypes' = [c \in 1..Len(raw) |->
                                  IF c \in Range(bool_cols(raw)) THEN "object"
                                  ELSE infer_dtype(raw[c])]
                 /\ message' = "uploaded"
                 /\ pc' = "overview"
    /\ UNCHANGED <<uploaded_file, overview, describe, numeric_cols,
                   x_axis, y_axis, chart, dashboard>>

\* Lines 46-56: preview and the four overview metrics.
Overview ==
    /\ pc = "overview"
    /\ overview' = [shown |-> TRUE, rows |-> NRows(data), columns |-> NCols(data),
                    missing |-> missing_values(data),
                    duplicates |-> duplicate_rows(data)]
    /\ pc' = "summary"
    /\ UNCHANGED <<uploaded_file, data, dtypes, message, describe, numeric_cols,
                   x_axis, y_axis, chart, dashboard>>

\* Lines 58-71: info and the statistical summary of the numeric columns (the
\* categorical summary is display only and is not kept).
Summary ==
    /\ pc = "summary"
    /\ describe' = LET num == select_dtypes(dtypes, {"number"})
                   IN [k \in 1..Len(num) |-> describe_column(data, num[k])]
    /\ pc' = "select"
    /\ UNCHANGED <<uploaded_file, data, dtypes, message, overview, numeric_cols,
                   x_axis, y_axis, chart, dashboard>>

\* Lines 73-92: column selection, numeric_cols, the X and Y select boxes.
\* Without a numeric column the warning is shown and the run ends with the
\* dashboard (lines 160-172).
Select ==
    /\ pc = "select"
    /\ LET cols == select_dtypes(dtypes, {"number"})
       IN /\ numeric_cols' = cols
          /\ IF ~charts_offered(cols)
               THEN /\ message' = "no_numeric"
                    /\ dashboard' = Dashboard(cols)
                    /\ pc' = "done"
                    /\ UNCHANGED <<x_axis, y_axis>>
               ELSE /\ x_axis' \in 1..NCols(data)
                    /\ y_axis' \in Range(cols) \cup (IF cols = <<>> THEN {0} ELSE {})
                    /\ pc' = "charts"
                    /\ UNCHANGED <<message, dashboard>>
    /\ UNCHANGED <<uploaded_file, data, dtypes, overview, describe, chart>>

HasY == y_axis \in 1..NCols(data)

\* The end of a run that offered the charts: the chart drawn, the message
\* shown and the dashboard of lines 160-172.
Finish(c, m) ==
    /\ chart' = c
    /\ message' = m
    /\ dashboard' = Dashboard(numeric_cols)
    /\ pc' = "done"
    /\ UNCHANGED <<uploaded_file, data, dtypes, overview, describe, numeric_cols,
                   x_axis, y_axis>>

\* No button pressed in this run.
NoButton ==
    /\ pc = "charts"
    /\ Finish(NoChart, message)

\* Lines 109-113
LineChart ==
    /\ pc = "charts" /\ HasY
    /\ Finish([kind |-> "line", labels |-> data[x_axis], values |-> data[y_axis],
               full |-> <<>>], message)

\* Lines 116-120
ScatterPlot ==
    /\ pc = "charts" /\ HasY
    /\ Finish([kind |-> "scatter", labels |-> data[x_axis], values |-> data[y_axis],
               full |-> <<>>], message)

\* Lines 123-127
BarChart ==
    /\ pc = "charts" /\ HasY
    /\ LET g == groupby_mean(data, x_axis, y_axis)
       IN Finish([kind |-> "bar", labels |-> [k \in 1..Len(g) |-> g[k][1]],
                  values |-> [k \in 1..Len(g) |-> g[k][2]], full |-> <<>>], message)

\* Lines 130-134
Histogram ==
    /\ pc = "charts" /\ HasY
    /\ Finish([kind |-> "hist", labels |-> <<>>,
               values |-> histogram(data[y_axis], Bins), full |-> <<>>], message)

\* Lines 137-142
PieChart ==
    /\ pc = "charts"
    /\ \E sorted \in value_counts(data[x_axis]) :
          LET pie_data == head(sorted, TopN)
          IN Finish([kind |-> "pie", labels |-> [k \in 1..Len(pie_data) |-> pie_data[k][1]],
                     values |-> [k \in 1..Len(pie_data) |-> pie_data[k][2]],
                     full |-> sorted], message)

\* Lines 145-158
Heatmap ==
    /\ pc = "charts"
    /\ IF enough_for_heatmap(numeric_cols)
         THEN Finish([kind |-> "heatmap", labels |-> numeric_cols, values |-> <<>>,
                      full |-> <<>>], message)
         ELSE Finish(NoChart, "need_two")

\* The user removes the file: the script reruns and takes lines 174-175.
Clear ==
    /\ pc \in {"done", "stopped"}
    /\ pc' = "idle"
    /\ uploaded_file' = NoFile
    /\ data' = <<>>
    /\ dtypes' = <<>>
    /\ message' = "get_started"
    /\ overview' = NoOverview
    /\ describe' = <<>>
    /\ numeric_cols' = <<>>
    /\ x_axis' = 0
    /\ y_axis' = 0
    /\ chart' = NoChart
    /\ dashboard' = NoDashboard

Next ==
    \/ Upload \/ Load \/ Overview \/ Summary \/ Select
    \/ NoButton \/ LineChart \/ ScatterPlot \/ BarChart \/ Histogram
    \/ PieChart \/ Heatmap \/ Clear

Spec == Init /\ [][Next]_vars

\* ------------------------------------------------------------- properties
Raw == uploaded_file.table
Cells(t) == (1..NCols(t)) \X (1..NRows(t))
Present(col) == {i \in 1..Len(col) : ~IsNA(col[i])}
Absent(col) == {i \in 1..Len(col) : IsNA(col[i])}
Occurrences(col, v) == Cardinality({i \in 1..Len(col) : col[i] = v})
FirstIndex(col, v) == CHOOSE i \in 1..Len(col) : col[i] = v /\ \A j \in 1..(i - 1) : col[j] # v
PresentValues(col) == {col[i] : i \in Present(col)}

RECURSIVE SetSum(_, _)
SetSum(S, f) ==
    IF S = {} THEN 0
    ELSE LET x == CHOOSE y \in S : TRUE IN f[x] + SetSum(S \ {x}, f)

\* C1: the duplicate-row count of the overview is the number of rows of the
\* uploaded table whose tuple of cells equals the tuple of a strictly earlier
\* row; k >= 1 copies of one row report k - 1.
C1_DuplicateCount ==
    overview.shown =>
        /\ overview.duplicates =
              Cardinality({i \in 1..NRows(Raw) :
                             \E j \in 1..(i - 1) : Row(Raw, j) = Row(Raw, i)})
        /\ (NRows(Raw) >= 1 /\ \A i \in 1..NRows(Raw) : Row(Raw, i) = Row(Raw, 1))
              => overview.duplicates = NRows(Raw) - 1

C1_Witness ==
    /\ overview.shown
    /\ overview.duplicates >= 2
    /\ overview.duplicates < overview.rows - 1

\* C2: the missing-value count of the overview is the number of absent cells
\* of the uploaded table over all columns and rows, boolean columns that the
\* loader turned into strings included.
C2_MissingCount ==
    overview.shown =>
        overview.missing = Cardinality({p \in Cells(Raw) : IsNA(Raw[p[1]][p[2]])})

C2_Witness ==
    /\ overview.shown
    /\ overview.missing > 0
    /\ \E c \in 1..NCols(Raw) : Raw[c] # data[c]

\* C3: a heatmap request with fewer than 2 numeric columns ends in the
\* warning without a matrix, a request with 2 or more never does.
C3_Heatmap ==
    [][Heatmap =>
         /\ (Len(numeric_cols) < 2) <=> (message' = "need_two")
         /\ (Len(numeric_cols) < 2) => chart' = NoChart
         /\ (Len(numeric_cols) >= 2) => chart'.kind = "heatmap"
         /\ pc' = "done"]_vars

C3_Witness ==
    /\ pc = "done"
    /\ message = "need_two"
    /\ Len(numeric_cols) = 1
    /\ chart = NoChart

\* C4: the counts of the histogram sum to the number of non-absent values;
\* with min < max bin b holds the values of [edge_b, edge_b+1), the last bin
\* those of [edge_b, edge_b+1]; with min = max one bin holds all values.
InBin(x, lo, hi, b, bins) ==
    /\ b * (hi - lo) <= (x - lo) * bins
    /\ IF b = bins - 1 THEN (x - lo) * bins <= (b + 1) * (hi - lo)
                       ELSE (x - lo) * bins < (b + 1) * (hi - lo)

C4_Histogram ==
    chart.kind = "hist" =>
        LET col == data[y_axis]
            xs == {Val(col[i]) : i \in Present(col)}
            counts == chart.values
        IN /\ Len(counts) = Bins
           /\ SeqSum(counts) = Cardinality(Present(col))
           /\ xs # {} =>
                LET lo == CHOOSE m \in xs : \A x \in xs : m <= x
                    hi == CHOOSE m \in xs : \A x \in xs : m >= x
                IN IF lo < hi
                     THEN \A b \in 0..(Bins - 1) :
                            counts[b + 1] =
                              Cardinality({i \in Present(col) :
                                             InBin(Val(col[i]), lo, hi, b, Bins)})
                     ELSE \E b \in 1..Bins : counts[b] = Cardinality(Present(col))

C4_Witness ==
    /\ chart.kind = "hist"
    /\ Absent(data[y_axis]) # {}
    /\ chart.values[1] >= 1
    /\ chart.values[Bins] >= 1
    /\ \E b \in 2..(Bins - 1) : chart.values[b] >= 1

\* C5 (as amended): the pie data has min(TopN, d) entries for a column with d
\* distinct present values, each with the number of cells holding its value,
\* in non-increasing order of count, and no omitted value occurs more often
\* than a returned one; entries of equal count come in no particular order.
PieShape ==
    LET col == data[x_axis]
        n == Len(chart.labels)
    IN /\ n = Min(TopN, Cardinality(PresentValues(col)))
       /\ Len(chart.values) = n
       /\ \A i \in 1..n : chart.values[i] = Occurrences(col, chart.labels[i])
       /\ \A i, j \in 1..n : i < j => chart.labels[i] # chart.labels[j]
       /\ \A i, j \in 1..n : i < j => chart.values[i] >= chart.values[j]
       /\ \A v \in PresentValues(col) \ Range(chart.labels) :
             \A i \in 1..n : Occurrences(col, v) <= chart.values[i]

C5_TopN == chart.kind = "pie" => PieShape

\* C5 (as stated): as above, and entries of equal count appear in the order
\* in which their values are first encountered in the column.
C5_TopNFirstEncountered ==
    chart.kind = "pie" =>
        /\ PieShape
        /\ \A i, j \in 1..Len(chart.labels) :
              (i < j /\ chart.values[i] = chart.values[j])
                => FirstIndex(data[x_axis], chart.labels[i])
                     < FirstIndex(data[x_axis], chart.labels[j])

C5_Witness ==
    /\ chart.kind = "pie"
    /\ Cardinality(PresentValues(data[x_axis])) > TopN
    /\ Len(chart.labels) = TopN
    /\ \E i \in 1..(TopN - 1) : chart.values[i] = chart.values[i + 1]
    /\ chart.values[1] > chart.values[TopN]

\* C6 (as amended): absent cells are left out of the frequency count: no entry
\* stands for the absent value, every present value has one entry with the
\* number of its cells, and the counts before truncation sum to the number
\* of non-absent cells.
C6_AbsentDropped ==
    chart.kind = "pie" =>
        LET col == data[x_axis]
            vc == chart.full
        IN /\ \A k \in 1..Len(vc) : ~IsNA(vc[k][1])
           /\ {vc[k][1] : k \in 1..Len(vc)} = PresentValues(col)
           /\ \A k \in 1..Len(vc) : vc[k][2] = Occurrences(col, vc[k][1])
           /\ SeqSum([k \in 1..Len(vc) |-> vc[k][2]]) = Cardinality(Present(col))
           /\ \A i \in 1..Len(chart.labels) : ~IsNA(chart.labels[i])

\* C6 (as stated): absent cells form a category of their own, counted with
\* the number of absent cells, and the counts before truncation sum to the
\* row count.
C6_AbsentCounted ==
    chart.kind = "pie" =>
        LET col == data[x_axis]
            vc == chart.full
        IN /\ Absent(col) # {} =>
                \E k \in 1..Len(vc) : vc[k] = <<NA, Cardinality(Absent(col))>>
           /\ SeqSum([k \in 1..Len(vc) |-> vc[k][2]]) = Len(col)

C6_Witness ==
    /\ chart.kind = "pie"
    /\ Len(chart.full) > TopN
    /\ \A k \in 1..Len(chart.full) : Cardinality(Absent(data[x_axis])) > chart.full[k][2]
    /\ \A i \in 1..Len(chart.labels) : ~IsNA(chart.labels[i])

\* C7 (as amended): the bar data has one entry per distinct present value of
\* the group-by column, in ascending order of the values; an entry's value is
\* the mean of the non-absent value cells of its group, and a group without
\* such a cell is still there, with an undefined mean.
GroupRows(k) == {i \in 1..NRows(data) : data[x_axis][i] = k /\ ~IsNA(data[y_axis][i])}

BarValues ==
    /\ Len(chart.values) = Len(chart.labels)
    /\ Range(chart.labels) = PresentValues(data[x_axis])
    /\ \A k \in 1..Len(chart.labels) :
          LET rows == GroupRows(chart.labels[k])
          IN IF rows = {} THEN chart.values[k] = NaN
             ELSE chart.values[k] =
                    Frac(SetSum(rows, [i \in rows |-> Val(data[y_axis][i])]),
                         Cardinality(rows))

C7_GroupMeansSorted ==
    chart.kind = "bar" =>
        /\ BarValues
        /\ \A i, j \in 1..Len(chart.labels) :
              i < j => Val(chart.labels[i]) < Val(chart.labels[j])

\* C7 (as stated): the entries are in the order in which the values are first
\* encountered scanning the rows top to bottom.
C7_GroupMeansFirstEncountered ==
    chart.kind = "bar" =>
        /\ BarValues
        /\ \A i, j \in 1..Len(chart.labels) :
              i < j => FirstIndex(data[x_axis], chart.labels[i])
                         < FirstIndex(data[x_axis], chart.labels[j])

C7_Witness ==
    /\ chart.kind = "bar"
    /\ Len(chart.labels) >= 2
    /\ FirstIndex(data[x_axis], chart.labels[1]) > FirstIndex(data[x_axis], chart.labels[2])
    /\ \E k \in 1..Len(chart.values) : chart.values[k] = NaN
    /\ \E k \in 1..Len(chart.values) : ~chart.values[k].nan /\ chart.values[k].den >= 2
    /\ Absent(data[x_axis]) # {}

\* C8 (as amended): a column is Boolean (turned into strings by the loader)
\* when it has a cell, no cell is absent and every cell is a boolean; else
\* Numeric when it has a cell and every non-absent cell is a number, which
\* includes the column whose cells are all absent; else Categorical.  So a
\* column of absent cells only is among the numeric columns offered to the
\* summary and the charts.
Loaded == pc \in {"overview", "summary", "select", "charts", "done"}
Selected == pc \in {"charts", "done"}
AsBoolean(c) ==
    /\ Len(Raw[c]) > 0
    /\ \A i \in 1..Len(Raw[c]) : Tag(Raw[c][i]) = "bool" /\ Tag(data[c][i]) = "str"
AsNumeric(c) == dtypes[c] = "number"
AllAbsent(col) == \A i \in 1..Len(col) : IsNA(col[i])

C8_Classification ==
    Loaded =>
        \A c \in 1..NCols(Raw) :
            LET col == Raw[c]
                allBool == Len(col) > 0 /\ \A i \in 1..Len(col) : Tag(col[i]) = "bool"
                allNum == Len(col) > 0 /\ \A i \in Present(col) : Tag(col[i]) = "num"
            IN /\ AsBoolean(c) <=> allBool
               /\ AsNumeric(c) <=> (~allBool /\ allNum)
               /\ Selected => (AsNumeric(c) <=> c \in Range(numeric_cols))
               /\ (Len(col) > 0 /\ AllAbsent(col)) => AsNumeric(c)

\* C8 (as stated): Boolean when every non-absent cell is a boolean, else
\* Numeric when every non-absent cell is a number, else Categorical; a column
\* whose cells are all absent is Categorical and never a numeric column.
C8_ClassificationAsStated ==
    Loaded =>
        \A c \in 1..NCols(Raw) :
            LET col == Raw[c]
                allBool == \A i \in Present(col) : Tag(col[i]) = "bool"
                allNum == \A i \in Present(col) : Tag(col[i]) = "num"
            IN IF AllAbsent(col)
                 THEN ~AsBoolean(c) /\ ~AsNumeric(c) /\ c \notin Range(numeric_cols)
                 ELSE /\ AsBoolean(c) <=> allBool
                      /\ AsNumeric(c) <=> (~allBool /\ allNum)

C8_Witness ==
    /\ pc = "done"
    /\ chart.kind = "hist"
    /\ Len(data[y_axis]) > 0
    /\ AllAbsent(data[y_axis])

\* C9 (as amended): in the numeric summary count is the number of non-absent
\* cells and the standard deviation is undefined (NaN) whenever count <= 1; a
\* column without a non-absent value yields count = 0 without raising.
Described == pc \in {"select", "charts", "done"}

SummaryCounts ==
    /\ {describe[k].column : k \in 1..Len(describe)}
         = {c \in 1..NCols(data) : dtypes[c] = "number"}
    /\ \A k \in 1..Len(describe) :
          describe[k].count = Cardinality(Present(data[describe[k].column]))

C9_StdUndefined ==
    Described =>
        /\ SummaryCounts
        /\ \A k \in 1..Len(describe) :
              /\ describe[k].count <= 1 => describe[k].var = NaN
              /\ describe[k].count >= 2 => ~describe[k].var.nan

\* C9 (as stated): the standard deviation is 0 whenever count <= 1.
C9_StdZero ==
    Described =>
        /\ SummaryCounts
        /\ \A k \in 1..Len(describe) :
              describe[k].count <= 1 => describe[k].var = Frac(0, 1)

C9_Witness ==
    /\ Described
    /\ \E k \in 1..Len(describe) :
          /\ describe[k].count = 1
          /\ describe[k].var = NaN
          /\ ~describe[k].mean.nan
          /\ Absent(data[describe[k].column]) # {}

\* C10: a chart aggregation is computed only after the file was read and only
\* when the table has a numeric column: a run stopped by an unsupported
\* extension or a read failure computes no summary and no aggregation, and a
\* table without a numeric column gets no aggregation, top-N frequency of a
\* categorical column included.
C10_ChartsGuarded ==
    /\ chart.kind # "none" =>
          /\ uploaded_file.ext \in {"csv", "xlsx"}
          /\ uploaded_file.readable
          /\ \E c \in 1..NCols(data) : dtypes[c] = "number"
    /\ pc = "stopped" =>
          /\ message \in {"unsupported", "could_not_read"}
          /\ ~overview.shown /\ describe = <<>> /\ chart = NoChart
    /\ (uploaded_file.ext \notin {"", "csv", "xlsx"} \/ (pc # "idle" /\ ~uploaded_file.readable))
          => pc \in {"load", "stopped"}
    /\ (pc = "done" /\ \A c \in 1..NCols(data) : dtypes[c] # "number")
          => chart = NoChart /\ message = "no_numeric"

C10_Witness ==
    /\ pc = "done"
    /\ message = "no_numeric"
    /\ chart = NoChart
    /\ \E c \in 1..NCols(data) : PresentValues(data[c]) # {}
====
